---------------------------- MODULE Spec2Model ----------------------------
(***************************************************************************)
(* A model of src/autoregressive/pixelCNN.py: the masks of the vertical    *)
(* and horizontal stack convolutions, the masked convolution layer and its *)
(* stored weight, the forward pass of PixelCNN through its gated blocks,   *)
(* and the sequential sampling loop.                                       *)
(*                                                                         *)
(* Three state machines share the variables below, one specification each: *)
(*   LayerSpec   one masked convolution layer: its construction, forward   *)
(*               calls and external weight updates                         *)
(*   ForwardSpec PixelCNN.forward, layer by layer, on two inputs           *)
(*   SampleSpec  PixelCNN.sample, one (row, column, channel) position per  *)
(*               step                                                      *)
(* A machine that a specification does not run stays at its Idle value.    *)
(***************************************************************************)
EXTENDS Integers, Sequences, FiniteSets, TLC

VARIABLES
    \* ---- one MaskedConvolution layer (LayerSpec)
    lpc,          \* "idle" | "new" | "built" | "applied"
    orient,       \* "vertical" | "horizontal": which subclass is constructed
    kernel_size,  \* the kernel_size argument of the stack convolution
    mask_center,  \* the mask_center argument
    dilation,     \* kwargs["dilation"]
    mask,         \* the registered buffer 'mask': [kernel position -> 0 | 1]
    padding,      \* <<pad_h, pad_w>> handed to nn.Conv2d
    inShape,      \* <<H, W>> of the input x
    outShape,     \* <<H, W>> of self.conv(x)
    weight,       \* self.conv.weight.data: [kernel position -> Int]
    usedWeight,   \* the kernel tensor the last self.conv(x) read
    lastOp,       \* "none" | "forward" | "update"
    weightBefore, \* history: the stored kernel before the last forward or update
    cycle         \* history: 0 constructed, 1 a forward ran, 2 an update followed
                  \* a forward, 3 a forward followed that update

layerVars == <<lpc, orient, kernel_size, mask_center, dilation, mask, padding,
               inShape, outShape, weight, usedWeight, lastOp, weightBefore, cycle>>

VARIABLES
    \* ---- PixelCNN.forward on two inputs (ForwardSpec)
    fpc,          \* "idle" | "start" | "gated" | "out" | "done"
    blk,          \* index into conv_layers of the next gated block, 1..7
    c_in,         \* number of image channels
    variant,      \* how input 2 differs from input 1: one perturbed entry, or
                  \* a crop to the first rows
    x,            \* x[i]: the input image of run i, [<<c, r, col>> -> intensity]
    rows,         \* rows[i]: height of x[i]
    cols,         \* width of both inputs
    v_stack,      \* v_stack[i]: the vertical stack of run i, [<<r, col>> -> feature]
    h_stack,      \* h_stack[i]: the horizontal stack of run i
    out           \* out[i]: the logits of run i, [<<c, r, col>> -> feature]

fwdVars == <<fpc, blk, c_in, variant, x, rows, cols, v_stack, h_stack, out>>

VARIABLES
    \* ---- PixelCNN.sample (SampleSpec)
    spc,          \* "idle" | "loop" | "done"
    img_shape,    \* <<B, C, H, W>>
    img,          \* the image being filled, [<<b, c, h, w>> -> intensity or -1]
    pos,          \* <<h, w, c>> of the loop nest: the position visited next
    rand,         \* the random source torch.multinomial draws from
    nDraws,       \* values drawn from it so far
    seed,         \* history: the image sample started from
    last,         \* history: what the last loop iteration did
    nForward,     \* history: forward passes run so far
    nVisited      \* history: positions visited so far

sampleVars == <<spc, img_shape, img, pos, rand, nDraws, seed, last, nForward, nVisited>>

vars == <<layerVars, fwdVars, sampleVars>>

----------------------------------------------------------------------------
(* Bounds of the model *)

\* input heights and widths 1..MaxIn of a single convolution
MaxIn == 3
\* the image height and width of ForwardSpec: a dilation of 4 needs 5 rows and
\* 5 columns for its taps to land inside the image
MaxRows == 5
MaxCols == 5
\* image channels 1..MaxChan
MaxChan == 2
\* img_shape of sample: batch sizes 1..MaxBatch, heights and widths 1..MaxSide
\* (the channels are 1..MaxChan)
MaxBatch == 2
MaxSide == 2

\* kernel extents the masks are built for
KernelSizes == {3, 5, 7}
\* the dilations PixelCNN.__init__ uses
DilationSchedule == <<1, 2, 1, 4, 1, 2, 1>>
Dilations == {DilationSchedule[i] : i \in 1..Len(DilationSchedule)}
\* values a stored kernel entry takes
WeightVals == {-1, 0, 1}
\* number of intensity classes: conv_out has c_in * 256 channels
NumClasses == 256
\* intensities an input entry takes; 256 is outside [0, 255]
InputVals == {0, NumClasses - 1, NumClasses}

----------------------------------------------------------------------------
(* The value of each machine while it does not run *)

NoTensor == <<>>

LayerIdle ==
    /\ lpc = "idle" /\ orient = "none" /\ kernel_size = 0 /\ mask_center = FALSE
    /\ dilation = 0 /\ mask = NoTensor /\ padding = <<0, 0>>
    /\ inShape = <<0, 0>> /\ outShape = <<0, 0>>
    /\ weight = NoTensor /\ usedWeight = NoTensor /\ lastOp = "none"
    /\ weightBefore = NoTensor /\ cycle = 0

ForwardIdle ==
    /\ fpc = "idle" /\ blk = 0 /\ c_in = 0 /\ variant = [kind |-> "none"]
    /\ x = <<>> /\ rows = <<>> /\ cols = 0
    /\ v_stack = <<>> /\ h_stack = <<>> /\ out = <<>>

NoStep == [kind |-> "none"]

SampleIdle ==
    /\ spc = "idle" /\ img_shape = <<0, 0, 0, 0>> /\ img = <<>> /\ pos = <<0, 0, 0>>
    /\ rand = [start |-> 0, stride |-> 0] /\ nDraws = 0
    /\ seed = <<>> /\ last = NoStep /\ nForward = 0 /\ nVisited = 0

----------------------------------------------------------------------------
(* Masks *)

KernelPositions(kh, kw) == (0..(kh - 1)) \X (0..(kw - 1))

\* mask[kernel_size//2+1:,:] = 0 forgotten: rows below the center stay 1
VerticalMaskKeepBelow(k, mc) ==
    [p \in KernelPositions(k, k) |->
        IF mc /\ p[1] = k \div 2 THEN 0 ELSE 1]

\* the slice starts at the center row: kernel_size//2 instead of kernel_size//2+1
VerticalMaskOffByOne(k, mc) ==
    [p \in KernelPositions(k, k) |->
        IF p[1] >= k \div 2 THEN 0 ELSE 1]

\* VerticalStackConvolution.__init__: torch.ones(k, k), rows k//2+1.. zeroed,
\* the center row k//2 zeroed too when mask_center
VerticalMask(k, mc) ==
    [p \in KernelPositions(k, k) |->
        IF p[1] >= k \div 2 + 1 THEN 0
        ELSE IF mc /\ p[1] = k \div 2 THEN 0
        ELSE 1]

\* the mask_center branch forgotten: the center column stays 1
HorizontalMaskKeepCenter(k, mc) ==
    [p \in KernelPositions(1, k) |->
        IF p[2] >= k \div 2 + 1 THEN 0 ELSE 1]

\* HorizontalStackConvolution.__init__: torch.ones(1, k), columns k//2+1..
\* zeroed, the center column k//2 zeroed too when mask_center
HorizontalMask(k, mc) ==
    [p \in KernelPositions(1, k) |->
        IF p[2] >= k \div 2 + 1 THEN 0
        ELSE IF mc /\ p[2] = k \div 2 THEN 0
        ELSE 1]

\* kernel_size = (mask.shape[0], mask.shape[1])
MaskShape(m) ==
    <<Cardinality({p[1] : p \in DOMAIN m}), Cardinality({p[2] : p \in DOMAIN m})>>

\* padding that ignores the dilation
PaddingNoDilation(ks, d) ==
    <<(ks[1] - 1) \div 2, (ks[2] - 1) \div 2>>

\* MaskedConvolution.__init__: dilation*(kernel_size[i] - 1)//2 for i in range(2)
Padding(ks, d) ==
    <<(d * (ks[1] - 1)) \div 2, (d * (ks[2] - 1)) \div 2>>

\* the size nn.Conv2d gives one spatial dimension (stride 1):
\* in + 2*padding - dilation*(kernel - 1) - 1 + 1, none when that is < 1
ConvOutSize(n, k, pad, d) == n + 2 * pad - d * (k - 1)

----------------------------------------------------------------------------
(* PixelCNN.forward                                                        *)
(*                                                                         *)
(* A real-valued feature is represented by what it was computed from:      *)
(*   data   the rescaled input entries <<c, r, col, value>> that reached   *)
(*          it through kernel entries whose masked weight is non-zero,     *)
(*   cells  the cells <<r, col>> of input and feature maps read that way.  *)
(* Kernel entries are non-zero wherever the mask allows, biases are        *)
(* non-zero, and tanh, sigmoid and elu lose nothing: two features are      *)
(* equal exactly when they were computed from the same data through the    *)
(* same cells.  A kernel tap that falls into the zero padding adds         *)
(* nothing.                                                                *)

Cells(H, W) == (0..(H - 1)) \X (0..(W - 1))
Entries(C, H, W) == (0..(C - 1)) \X (0..(H - 1)) \X (0..(W - 1))

Join(f, g) == [data |-> f.data \cup g.data, cells |-> f.cells \cup g.cells]
\* the feature at cell s of map m, read through a non-zero kernel entry
Read(m, s) == [data |-> m[s].data, cells |-> m[s].cells \cup {s}]

\* x = (x.float() / 255.0) * 2 - 1, in units of 1/255
Rescale(val) == 2 * val - (NumClasses - 1)

\* the rescaled image as a map over cells: all channels of one pixel
InputFeatures(image, C, H, W) ==
    [s \in Cells(H, W) |->
        [data |-> {<<c, s[1], s[2], Rescale(image[<<c, s[1], s[2]>>])>> : c \in 0..(C - 1)},
         cells |-> {}]]

\* the kernel nn.Conv2d holds before masking: non-zero at every position
GenericWeight(m) == [p \in DOMAIN m |-> 1]

\* the multiplication by the mask left out of forward
MaskedWeightOmitted(w, m) == w

\* the mask applied the wrong way round
MaskedWeightInverted(w, m) == [p \in DOMAIN w |-> w[p] * (1 - m[p])]

\* self.conv.weight.data *= self.mask
MaskedWeight(w, m) == [p \in DOMAIN w |-> w[p] * m[p]]

\* MaskedConvolution.forward: self.conv(x) with the masked kernel, dilation d
\* and the padding of __init__, on a map of height H and width W
MaskedConv(inp, m, d, H, W) ==
    LET w == MaskedWeight(GenericWeight(m), m)
        pad == Padding(MaskShape(m), d)
        Src(s, p) == <<s[1] + p[1] * d - pad[1], s[2] + p[2] * d - pad[2]>>
        Taps(s) == {p \in DOMAIN m : w[p] # 0 /\ Src(s, p) \in Cells(H, W)}
        Sum(s) == [data |-> UNION {inp[Src(s, p)].data : p \in Taps(s)},
                   cells |-> UNION {inp[Src(s, p)].cells \cup {Src(s, p)} : p \in Taps(s)}]
    IN  [s \in Cells(H, W) |-> Sum(s)]

\* nn.Conv2d(kernel_size=1, padding=0): every output cell reads its own cell
Conv1x1(inp, H, W) == [s \in Cells(H, W) |-> Read(inp, s)]

\* the kernel_size default of the stack convolutions
DefaultKernel == 3

\* PixelCNN.forward, initial convolutions: conv_vstack and conv_hstack, both
\* with mask_center=True and dilation 1
InitialVStack(image, C, H, W) ==
    MaskedConv(InputFeatures(image, C, H, W), VerticalMask(DefaultKernel, TRUE), 1, H, W)
InitialHStack(image, C, H, W) ==
    MaskedConv(InputFeatures(image, C, H, W), HorizontalMask(DefaultKernel, TRUE), 1, H, W)

\* GatedMaskedConv.forward, vertical stack: v_stack_feat = conv_vert(v_stack)
GatedVFeat(v, d, H, W) ==
    MaskedConv(v, VerticalMask(DefaultKernel, FALSE), d, H, W)

\* v_stack_out = tanh(v_val) * sigmoid(v_gate): both halves of the same cell
GatedVOut(vfeat, H, W) == [s \in Cells(H, W) |-> Join(vfeat[s], vfeat[s])]

\* GatedMaskedConv.forward, horizontal stack: conv_horiz(h_stack) plus
\* conv_vert_to_horiz(v_stack_feat), gated, conv_horiz_1x1, plus h_stack
GatedHOut(vfeat, h, d, H, W) ==
    LET hconv == MaskedConv(h, HorizontalMask(DefaultKernel, FALSE), d, H, W)
        v2h == Conv1x1(vfeat, H, W)
        hfeat == [s \in Cells(H, W) |-> Join(hconv[s], v2h[s])]
        h1x1 == Conv1x1(hfeat, H, W)
    IN  [s \in Cells(H, W) |-> Join(h1x1[s], h[s])]

\* out = self.conv_out(F.elu(h_stack)), reshaped to [Classes, Channels, H, W]:
\* the logits of every channel c at (r, col) come from h_stack at (r, col)
Logits(h, C, H, W) ==
    LET o == Conv1x1(h, H, W)
    IN  [e \in Entries(C, H, W) |-> o[<<e[2], e[3]>>]]

Runs == {1, 2}

\* img[:, :, :k, :]
Crop(image, C, k, W) == [e \in Entries(C, k, W) |-> image[e]]

\* the ways input 2 differs from input 1
Variants(C, H, W, a) ==
    {[kind |-> "perturb", cell |-> q, val |-> b] :
        q \in Entries(C, H, W), b \in InputVals \ {a}}
    \cup {[kind |-> "crop", rows |-> k] : k \in 1..H}

\* two calls of forward: input 1 is an image of intensity a, input 2 is input 1
\* with one entry changed, or input 1 cropped to its first rows
ForwardInit ==
    /\ fpc = "start" /\ blk = 1
    /\ c_in \in 1..MaxChan
    /\ cols \in {1, MaxCols}
    /\ \E H \in {1, MaxRows}, a \in InputVals \ {NumClasses} :
        \E vr \in Variants(c_in, H, cols, a) :
          LET image == [e \in Entries(c_in, H, cols) |-> a] IN
          /\ variant = vr
          /\ rows = <<H, IF vr.kind = "crop" THEN vr.rows ELSE H>>
          /\ x = <<image,
                   IF vr.kind = "crop" THEN Crop(image, c_in, vr.rows, cols)
                   ELSE [image EXCEPT ![vr.cell] = vr.val]>>
    /\ v_stack = <<>> /\ h_stack = <<>> /\ out = <<>>

\* v_stack = self.conv_vstack(x); h_stack = self.conv_hstack(x)
InitialConvs ==
    /\ fpc = "start"
    /\ v_stack' = [i \in Runs |-> InitialVStack(x[i], c_in, rows[i], cols)]
    /\ h_stack' = [i \in Runs |-> InitialHStack(x[i], c_in, rows[i], cols)]
    /\ fpc' = "gated"
    /\ UNCHANGED <<blk, c_in, variant, x, rows, cols, out>>
    /\ UNCHANGED <<layerVars, sampleVars>>

\* v_stack, h_stack = layer(v_stack, h_stack) for the next layer of conv_layers
GatedBlock ==
    /\ fpc = "gated"
    /\ LET d == DilationSchedule[blk]
           vfeat == [i \in Runs |-> GatedVFeat(v_stack[i], d, rows[i], cols)]
       IN  /\ v_stack' = [i \in Runs |-> GatedVOut(vfeat[i], rows[i], cols)]
           /\ h_stack' = [i \in Runs |->
                            GatedHOut(vfeat[i], h_stack[i], d, rows[i], cols)]
    /\ blk' = blk + 1
    /\ fpc' = IF blk = Len(DilationSchedule) THEN "out" ELSE "gated"
    /\ UNCHANGED <<c_in, variant, x, rows, cols, out>>
    /\ UNCHANGED <<layerVars, sampleVars>>

\* out = self.conv_out(F.elu(h_stack)); reshape; return out
Output ==
    /\ fpc = "out"
    /\ out' = [i \in Runs |-> Logits(h_stack[i], c_in, rows[i], cols)]
    /\ fpc' = "done"
    /\ UNCHANGED <<blk, c_in, variant, x, rows, cols, v_stack, h_stack>>
    /\ UNCHANGED <<layerVars, sampleVars>>

ForwardNext ==
    \/ InitialConvs
    \/ GatedBlock
    \/ Output

----------------------------------------------------------------------------
(* PixelCNN.sample *)

\* the sentinel of a pixel still to be filled
Unfilled == -1

Batch(shape) == 0..(shape[1] - 1)
ImgEntries(shape) ==
    (0..(shape[1] - 1)) \X (0..(shape[2] - 1)) \X (0..(shape[3] - 1)) \X (0..(shape[4] - 1))

\* the place of position <<h, w, c>> in the order of the loop nest: rows outer,
\* columns middle, channels inner
ScanIndex(shape, h, w, c) == (h * shape[4] + w) * shape[2] + c
NumPositions(shape) == shape[2] * shape[3] * shape[4]

\* the default: torch.zeros(img_shape, dtype=torch.long) - 1
EmptyImage(shape) == [e \in ImgEntries(shape) |-> Unfilled]

\* the fill patterns of one image of a seed batch: which scan indices hold a
\* value already
FillPatterns(n) ==
    {{}} \cup {0..(i - 1) : i \in 1..n} \cup {{i} : i \in 0..(n - 1)}

\* a seed batch: element 0 is filled on F0, the other elements on F1, with
\* the intensity val
SeedImage(shape, F0, F1, val) ==
    [e \in ImgEntries(shape) |->
        LET i == ScanIndex(shape, e[3], e[4], e[2])
        IN  IF i \in (IF e[1] = 0 THEN F0 ELSE F1) THEN val ELSE Unfilled]

\* intensities a seed holds where it is filled
SeedVals == {0, NumClasses - 1}

\* random sources: the n-th value drawn is (start + n * stride) mod 256
RandomSources ==
    {[start |-> 0, stride |-> 1], [start |-> NumClasses - 1, stride |-> 0]}

\* torch.multinomial(probs, num_samples=1): one class index per batch element.
\* softmax gives every class a positive probability; the index drawn is the
\* random source's next value
Multinomial(src, n, shape) ==
    [b \in Batch(shape) |-> (src.start + (n + b) * src.stride) % NumClasses]

\* sample(img_shape, device, img): img is None (an empty image is created) or
\* a seed batch
SampleInit ==
    /\ spc = "loop"
    /\ img_shape \in (1..MaxBatch) \X (1..MaxChan) \X (1..MaxSide) \X (1..MaxSide)
    /\ \/ img = EmptyImage(img_shape)
       \/ \E F0 \in FillPatterns(NumPositions(img_shape)), val \in SeedVals :
            \E F1 \in {{}, F0, 0..(NumPositions(img_shape) - 1)} :
                img = SeedImage(img_shape, F0, F1, val)
    /\ seed = img
    /\ pos = <<0, 0, 0>>
    /\ rand \in RandomSources /\ nDraws = 0
    /\ last = NoStep /\ nForward = 0 /\ nVisited = 0

\* the column img[:, c, h, w]
Column(im, shape, h, w, c) == [b \in Batch(shape) |-> im[<<b, c, h, w>>]]

\* a skip test that passes as soon as one batch element is filled
SkipTestAny(im, shape, h, w, c) ==
    \E b \in Batch(shape) : im[<<b, c, h, w>>] # Unfilled

\* (img[:,c,h,w] != -1).all().item()
SkipTest(im, shape, h, w, c) ==
    \A b \in Batch(shape) : im[<<b, c, h, w>>] # Unfilled

\* the loop nest: for h in range(H): for w in range(W): for c in range(C);
\* a loop nest without the loop over the channels
NextPosSkipsChannels(shape, h, w, c) ==
    IF w + 1 < shape[4] THEN <<h, w + 1, 0>> ELSE <<h + 1, 0, 0>>

\* the position after <<h, w, c>>; after the last one, row H: range(H) is
\* exhausted
NextPos(shape, h, w, c) ==
    IF c + 1 < shape[2] THEN <<h, w, c + 1>>
    ELSE IF w + 1 < shape[4] THEN <<h, w + 1, 0>>
    ELSE <<h + 1, 0, 0>>

\* the end of one loop iteration: the next position, or return img
Advance ==
    LET nxt == NextPos(img_shape, pos[1], pos[2], pos[3]) IN
    /\ pos' = nxt
    /\ spc' = IF nxt[1] < img_shape[3] THEN "loop" ELSE "done"
    /\ nVisited' = nVisited + 1

\* one iteration with the skip test true: continue
SampleSkip ==
    /\ spc = "loop"
    /\ SkipTest(img, img_shape, pos[1], pos[2], pos[3])
    /\ last' = [kind |-> "skip", at |-> pos,
                before |-> Column(img, img_shape, pos[1], pos[2], pos[3]),
                forwards |-> 0]
    /\ Advance
    /\ UNCHANGED <<img_shape, img, rand, nDraws, seed, nForward>>
    /\ UNCHANGED <<layerVars, fwdVars>>

\* one iteration with the skip test false: forward on img[:, :, :h+1, :],
\* softmax of pred[:, :, c, h, w], one draw per batch element, written to
\* img[:, c, h, w]
SampleFill ==
    /\ spc = "loop"
    /\ ~SkipTest(img, img_shape, pos[1], pos[2], pos[3])
    /\ LET h == pos[1]
           w == pos[2]
           c == pos[3]
           drawn == Multinomial(rand, nDraws, img_shape)
       IN  /\ img' = [e \in DOMAIN img |->
                        IF <<e[2], e[3], e[4]>> = <<c, h, w>> THEN drawn[e[1]]
                        ELSE img[e]]
           /\ last' = [kind |-> "fill", at |-> pos,
                       before |-> Column(img, img_shape, h, w, c),
                       forwards |-> 1, fwdRows |-> h + 1, drawn |-> drawn]
    /\ nDraws' = nDraws + img_shape[1]
    /\ nForward' = nForward + 1
    /\ Advance
    /\ UNCHANGED <<img_shape, rand, seed>>
    /\ UNCHANGED <<layerVars, fwdVars>>

SampleNext ==
    \/ SampleSkip
    \/ SampleFill


----------------------------------------------------------------------------
(* One masked convolution layer: construction, forward, external updates *)

LayerInit ==
    /\ lpc = "new" /\ orient = "none" /\ kernel_size = 0 /\ mask_center = FALSE
    /\ dilation = 0 /\ mask = NoTensor /\ padding = <<0, 0>>
    /\ inShape = <<0, 0>> /\ outShape = <<0, 0>>
    /\ weight = NoTensor /\ usedWeight = NoTensor /\ lastOp = "none"
    /\ weightBefore = NoTensor /\ cycle = 0

\* MaskedConvolution.__init__ with the mask m the subclass built; nn.Conv2d
\* draws the initial kernel, here the same non-zero value w0 at every position
MaskedConvolutionInit(m, d, w0) ==
    /\ dilation' = d
    /\ padding' = Padding(MaskShape(m), d)
    /\ mask' = m
    /\ weight' = [p \in DOMAIN m |-> w0]
    /\ lpc' = "built"
    /\ UNCHANGED <<inShape, outShape, usedWeight, lastOp, weightBefore, cycle>>

\* VerticalStackConvolution(c_in, c_out, kernel_size=k, mask_center=mc, dilation=d)
ConstructVertical ==
    /\ lpc = "new"
    /\ \E k \in KernelSizes, mc \in BOOLEAN, d \in Dilations, w0 \in WeightVals \ {0} :
        /\ orient' = "vertical"
        /\ kernel_size' = k
        /\ mask_center' = mc
        /\ MaskedConvolutionInit(VerticalMask(k, mc), d, w0)
    /\ UNCHANGED <<fwdVars, sampleVars>>

\* HorizontalStackConvolution(c_in, c_out, kernel_size=k, mask_center=mc, dilation=d)
ConstructHorizontal ==
    /\ lpc = "new"
    /\ \E k \in KernelSizes, mc \in BOOLEAN, d \in Dilations, w0 \in WeightVals \ {0} :
        /\ orient' = "horizontal"
        /\ kernel_size' = k
        /\ mask_center' = mc
        /\ MaskedConvolutionInit(HorizontalMask(k, mc), d, w0)
    /\ UNCHANGED <<fwdVars, sampleVars>>

\* MaskedConvolution.forward on an input of height inH and width inW: the
\* stored kernel is multiplied by the mask in place, then self.conv reads it
LayerForward ==
    /\ lpc \in {"built", "applied"}
    /\ \E inH \in 1..MaxIn, inW \in 1..MaxIn :
        LET ks == MaskShape(mask) IN
        /\ inShape' = <<inH, inW>>
        /\ outShape' = <<ConvOutSize(inH, ks[1], padding[1], dilation),
                         ConvOutSize(inW, ks[2], padding[2], dilation)>>
    /\ weight' = MaskedWeight(weight, mask)
    /\ usedWeight' = weight'
    /\ lastOp' = "forward"
    /\ weightBefore' = weight
    /\ cycle' = IF cycle = 0 THEN 1 ELSE IF cycle = 2 THEN 3 ELSE cycle
    /\ lpc' = "applied"
    /\ UNCHANGED <<orient, kernel_size, mask_center, dilation, mask, padding>>
    /\ UNCHANGED <<fwdVars, sampleVars>>

\* the kernel positions an external update writes
UpdateRegions(m) ==
    { DOMAIN m, {p \in DOMAIN m : m[p] = 0}, {p \in DOMAIN m : m[p] = 1} }

\* an optimizer step between two forward calls (configure_optimizers: Adam over
\* self.parameters()): it writes the stored kernel, masked positions included
LayerUpdate ==
    /\ lpc \in {"built", "applied"}
    /\ \E R \in UpdateRegions(mask), v \in WeightVals :
        weight' = [p \in DOMAIN weight |-> IF p \in R THEN v ELSE weight[p]]
    /\ lastOp' = "update"
    /\ weightBefore' = weight
    /\ cycle' = IF cycle = 1 THEN 2 ELSE cycle
    /\ UNCHANGED <<lpc, orient, kernel_size, mask_center, dilation, mask, padding,
                   inShape, outShape, usedWeight>>
    /\ UNCHANGED <<fwdVars, sampleVars>>

LayerNext ==
    \/ ConstructVertical
    \/ ConstructHorizontal
    \/ LayerForward
    \/ LayerUpdate

----------------------------------------------------------------------------
(* Specifications *)

\* a layer is constructed and used; no forward pass of the model, no sampling
LayerSpecInit == LayerInit /\ ForwardIdle /\ SampleIdle
LayerSpec == LayerSpecInit /\ [][LayerNext]_vars

\* forward is called on two inputs
ForwardSpecInit == ForwardInit /\ LayerIdle /\ SampleIdle
ForwardSpec == ForwardSpecInit /\ [][ForwardNext]_vars

\* the loop of sample runs to its end once called: no iteration waits for
\* anything
SampleSpecInit == SampleInit /\ LayerIdle /\ ForwardIdle
SampleSpec == SampleSpecInit /\ [][SampleNext]_vars /\ WF_vars(SampleNext)

----------------------------------------------------------------------------
(* Claims about PixelCNN.sample, under SampleSpec *)

Filled(im) == \A e \in DOMAIN im : im[e] # Unfilled
ValidSeed(im) == \A e \in DOMAIN im : im[e] = Unfilled \/ im[e] \in 0..(NumClasses - 1)

\* the entries of batch element b that come before position <<h, w, c>> in the
\* order of the loop nest are all filled
EarlierFilled(im, shape, b, at) ==
    \A e \in DOMAIN im :
        (e[1] = b /\ ScanIndex(shape, e[3], e[4], e[2]) < ScanIndex(shape, at[1], at[2], at[3]))
            => im[e] # Unfilled

\* C2 as stated: in every batch element, for any seed, a cell is written only
\* while it is unfilled (a filled cell is never written again), only when all
\* cells earlier in raster-then-channel order are filled, and the image sample
\* returns has every cell filled.
C2_FillOnceInOrder ==
    /\ last.kind = "fill" =>
          \A b \in Batch(img_shape) :
              /\ last.before[b] = Unfilled
              /\ EarlierFilled(img, img_shape, b, last.at)
    /\ spc = "done" => Filled(img)

\* C3: for any img_shape and any seed with values in {-1} \cup [0, 255], sample
\* returns after visiting every (row, column, channel) position, and the image
\* it returns has the seed's shape, no -1 in any batch element and every value
\* in [0, 255].
C3_SampleCompletes ==
    /\ <>(spc = "done")
    /\ [](spc = "done" =>
            /\ nVisited = NumPositions(img_shape)
            /\ DOMAIN img = ImgEntries(img_shape)
            /\ DOMAIN img = DOMAIN seed
            /\ \A e \in DOMAIN img : img[e] # Unfilled /\ img[e] \in 0..(NumClasses - 1))

\* sample has returned a batch of two 2-channel 2 x 2 images whose seeds differed:
\* element 0 was filled at the first position only, element 1 was empty
C3_Witness ==
    /\ spc = "done" /\ img_shape = <<2, 2, 2, 2>>
    /\ ValidSeed(seed)
    /\ seed[<<0, 0, 0, 0>>] # Unfilled /\ seed[<<0, 1, 0, 0>>] = Unfilled
    /\ \A e \in DOMAIN seed : e[1] = 1 => seed[e] = Unfilled
    /\ Filled(img)

----------------------------------------------------------------------------
(* Claims about PixelCNN.forward, under ForwardSpec *)

\* q comes strictly before p in raster-then-channel order: an earlier row, or
\* the same row and an earlier column, or the same pixel and an earlier channel
StrictlyPrecedes(q, p) ==
    \/ q[2] < p[2]
    \/ q[2] = p[2] /\ q[3] < p[3]
    \/ q[2] = p[2] /\ q[3] = p[3] /\ q[1] < p[1]

\* C1: two images that agree on every entry strictly preceding (c, h, w) get the
\* same logits at (c, h, w); and the logits at (c, h, w) are computed from
\* entries strictly preceding (c, h, w) only.
C1_Causality ==
    fpc = "done" =>
        /\ variant.kind = "perturb" =>
              \A p \in DOMAIN out[1] :
                  ~StrictlyPrecedes(variant.cell, p) => out[1][p] = out[2][p]
        /\ \A i \in Runs : \A p \in DOMAIN out[i] :
              \A a \in out[i][p].data : StrictlyPrecedes(<<a[1], a[2], a[3]>>, p)

\* the entry (channel 0, row 2, column 2) of a two-channel 5 x 5 image is changed:
\* the logits of its own pixel are the same in both runs, those of the next
\* pixel of the row and of the pixel below are not
C1_Witness ==
    /\ fpc = "done" /\ variant.kind = "perturb" /\ variant.cell = <<0, 2, 2>>
    /\ c_in = 2 /\ rows[1] = 5 /\ cols = 5
    /\ out[1][<<0, 2, 2>>] = out[2][<<0, 2, 2>>]
    /\ out[1][<<1, 2, 2>>] = out[2][<<1, 2, 2>>]
    /\ out[1][<<0, 2, 3>>] # out[2][<<0, 2, 3>>]
    /\ out[1][<<0, 3, 2>>] # out[2][<<0, 3, 2>>]

\* C10: forward on the image cropped to rows [0, h] gives at (c, h, w) the logits
\* forward gives there on the full-height image, for every channel c and
\* column w; row h is a row of the cropped output.
C10_CropEquivalence ==
    (fpc = "done" /\ variant.kind = "crop") =>
        LET h == variant.rows - 1 IN
        \A c \in 0..(c_in - 1), w \in 0..(cols - 1) :
            /\ <<c, h, w>> \in DOMAIN out[2]
            /\ out[2][<<c, h, w>>] = out[1][<<c, h, w>>]

\* a 5 x 5 image cropped to its first three rows: the logits of row 2 are
\* computed, from rows above and from the row itself, in both runs
C10_Witness ==
    /\ fpc = "done" /\ variant.kind = "crop" /\ variant.rows = 3
    /\ rows = <<5, 3>> /\ cols = 5
    /\ \E a \in out[2][<<0, 2, 2>>].data : a[2] = 1
    /\ \E a \in out[2][<<0, 2, 2>>].data : a[2] = 2
    /\ out[1][<<0, 2, 2>>] = out[2][<<0, 2, 2>>]

----------------------------------------------------------------------------
(* Claims about one masked convolution layer, under LayerSpec *)

ZeroCount(m) == Cardinality({p \in DOMAIN m : m[p] = 0})

Built == lpc \in {"built", "applied"}

C7_ShapePreserved ==
    (lpc = "applied" /\ kernel_size = 3 /\ dilation \in {1, 2, 4}) =>
        outShape = inShape

\* a horizontal 1 x 3 convolution with dilation 4 applied to a 1 x 2 input
C7_Witness ==
    /\ lpc = "applied" /\ kernel_size = 3 /\ dilation = 4
    /\ orient = "horizontal" /\ inShape = <<1, 2>> /\ outShape = <<1, 2>>

\* C8: the kernel every application of the convolution reads is zero wherever
\* the mask is zero, whatever updates of the stored weight came between calls.
C8_UsedWeightMasked ==
    usedWeight # NoTensor =>
        \A p \in DOMAIN mask : mask[p] = 0 => usedWeight[p] = 0

\* a forward call after an update that followed an earlier forward call and
\* left a non-zero value at a masked position
C8_Witness ==
    /\ cycle = 3 /\ lastOp = "forward"
    /\ \E p \in DOMAIN mask : mask[p] = 0 /\ weightBefore[p] # 0

============================================================================
